---- MODULE Spec2Model ----
(***************************************************************************)
(* MiaCat (src/mia_cat.py): a tray icon whose animation speed follows the  *)
(* CPU load.  The model covers the settings file, the instance guard, the  *)
(* animation thread, the menu callbacks and the application launcher.      *)
(***************************************************************************)
EXTENDS Integers, Sequences, FiniteSets, TLC

VARIABLES
    IS_WINDOWS,            \* module constant chosen by platform.system()
    ini,                   \* [animal] run_animal of ./ini/settings.ini
    mutex,                 \* processes holding a handle of "mia_cat_mutex"
    pc,                    \* position of each process in __main__ / start_mia_cat
    proc,                  \* name and command line of each live process
    APP_PATH,              \* WINDOWS_APP_PATH / MAC_APP_PATH of each process
    running_animal,        \* self.running_animal
    running_animal_icons,  \* self.running_animal_icons
    even_loop,             \* self.even_loop
    mia_cat_mutex,         \* self.mia_cat_mutex
    tray,                  \* state of the pystray.Icon self.mia_cat
    icon,                  \* self.mia_cat.icon
    title,                 \* self.mia_cat.title
    lpc,                   \* position of the animation thread
    cpu_percent,           \* local of run_animal
    sleep_duration,        \* local of run_animal
    it_list,               \* the list the for statement of run_animal iterates
    it_idx,                \* position of that iterator
    guard,                 \* <<value returned by is_app_running>>, <<>> before
    launch,                \* what the last launch_app call did (rc: <<status>>, <<>> if none)
    cycle,                 \* events of the current run_animal call
    sw,                    \* icon updates seen since the last variant switch
    selected,              \* variant loaded at startup or last chosen in the menu
    saved                  \* variant chosen when Exit last wrote the settings

vars == <<IS_WINDOWS, ini, mutex, pc, proc, APP_PATH, running_animal,
          running_animal_icons, even_loop, mia_cat_mutex, tray, icon, title,
          lpc, cpu_percent, sleep_duration, it_list, it_idx, guard, launch,
          cycle, sw, selected, saved>>

None == "None"

Procs == {1, 2}

(***************************************************************************)
(* Frame store                                                             *)
(***************************************************************************)
Variants == {"white_cat", "black_cat", "white_horse", "black_horse",
             "white_parrot", "black_parrot"}

FrameCount(v) ==
    CASE v \in {"white_cat", "black_cat"} -> 5
      [] v \in {"white_horse", "black_horse"} -> 14
      [] v \in {"white_parrot", "black_parrot"} -> 10

\* Image.open(f"./res/.../{v}_{i}.png") for i in range(n)
Frame(v, i) == [animal |-> v, index |-> i]

RUNNING_ANIMALS_MAPPING(v) == [k \in 1..FrameCount(v) |-> Frame(v, k - 1)]

(***************************************************************************)
(* Delay mapping: exact rational arithmetic, a rational being <<num, den>> *)
(***************************************************************************)
RatAdd(a, b) == <<a[1] * b[2] + b[1] * a[2], a[2] * b[2]>>
RatDiv(a, b) == <<a[1] * b[2], a[2] * b[1]>>
RatEq(a, b) == a[1] * b[2] = b[1] * a[2]
\* a <= b, for positive denominators
RatLeq(a, b) == a[1] * b[2] <= b[1] * a[2]
RatPos(a) == a[1] > 0 /\ a[2] > 0

\* a plausible slip: the offset 0.1 left out
SleepDurationNoOffset(p) == RatDiv(<<1, 100>>, <<p, 100>>)

\* sleep_duration = 0.01 / (cpu_percent / 100 + 0.1)
SleepDuration(p) == RatDiv(<<1, 100>>, RatAdd(<<p, 100>>, <<1, 10>>))

\* psutil.cpu_percent(): a percentage
CpuPercents == 0..100

(***************************************************************************)
(* Instance guard                                                          *)
(***************************************************************************)
\* a process name is a string of characters, a command line a list of
\* arguments
Python3 == <<"p", "y", "t", "h", "o", "n", "3">>
Vim == <<"v", "i", "m">>

\* needle in hay, for two str
StrContains(needle, hay) ==
    \E i \in 0..(Len(hay) - Len(needle)) :
        SubSeq(hay, i + 1, i + Len(needle)) = needle

\* x in xs, for a list xs
ListContains(x, xs) == \E k \in DOMAIN xs : xs[k] = x

NoProc == [name |-> <<>>, cmdline |-> <<>>]

\* how the program is launched: python3 mia_cat.py, python3 ./mia_cat.py
LaunchStyles ==
    { [name |-> Python3, cmdline |-> <<"python3", "mia_cat.py">>],
      [name |-> Python3, cmdline |-> <<"python3", "./mia_cat.py">>] }

\* processes of the machine that are not instances of the program
ForeignProcs == << [name |-> Vim, cmdline |-> <<"vim", "mia_cat.py">>] >>

Alive(p) == pc[p] # "absent"

\* psutil.process_iter(): every live process, the calling one included
ProcessTable ==
    ForeignProcs \o (IF Alive(1) THEN <<proc[1]>> ELSE <<>>)
                 \o (IF Alive(2) THEN <<proc[2]>> ELSE <<>>)

\* "python" in proc.name() and "mia_cat.py" in proc.cmdline()
MatchesSignature(e) ==
    /\ StrContains(<<"p", "y", "t", "h", "o", "n">>, e.name)
    /\ ListContains("mia_cat.py", e.cmdline)

\* The scan of is_app_running from entry k on.  proc.name() or
\* proc.cmdline() raises NoSuchProcess, AccessDenied or ZombieProcess at
\* entry faultAt (0: nowhere); contextlib.suppress then leaves the loop.
RECURSIVE ScanFrom(_, _, _)
ScanFrom(table, k, faultAt) ==
    IF k > Len(table) THEN FALSE
    ELSE IF k = faultAt THEN FALSE
    ELSE IF MatchesSignature(table[k]) THEN TRUE
    ELSE ScanFrom(table, k + 1, faultAt)

(***************************************************************************)
(* Initial state: no instance of the program is running                    *)
(***************************************************************************)
NoTitle == <<>>
NoFrame == [animal |-> None, index |-> 0]
NoLaunch == [app |-> None, path |-> None, popen |-> 0, spawned |-> 0,
             rc |-> <<>>, errors |-> 0, raised |-> None]
NoSwitch == [active |-> FALSE, prev |-> None, new |-> None, bound |-> 0,
             old |-> 0, fresh |-> FALSE, ok |-> TRUE]
NoPaths == [a \in {} |-> None]

Init ==
    /\ IS_WINDOWS \in BOOLEAN
    /\ ini \in Variants \cup {"corrupt"}
    /\ mutex = {}
    /\ pc = [p \in Procs |-> "absent"]
    /\ proc = [p \in Procs |-> NoProc]
    /\ APP_PATH = [p \in Procs |-> NoPaths]
    /\ running_animal = [p \in Procs |-> None]
    /\ running_animal_icons = [p \in Procs |-> <<>>]
    /\ even_loop = [p \in Procs |-> None]
    /\ mia_cat_mutex = [p \in Procs |-> None]
    /\ tray = [p \in Procs |-> "none"]
    /\ icon = [p \in Procs |-> NoFrame]
    /\ title = [p \in Procs |-> NoTitle]
    /\ lpc = [p \in Procs |-> "off"]
    /\ cpu_percent = [p \in Procs |-> 0]
    /\ sleep_duration = [p \in Procs |-> <<0, 1>>]
    /\ it_list = [p \in Procs |-> <<>>]
    /\ it_idx = [p \in Procs |-> 0]
    /\ guard = [p \in Procs |-> <<>>]
    /\ launch = [p \in Procs |-> NoLaunch]
    /\ cycle = [p \in Procs |-> <<>>]
    /\ sw = [p \in Procs |-> NoSwitch]
    /\ selected = [p \in Procs |-> None]
    /\ saved = None

(***************************************************************************)
(* __main__ and MiaCat.__init__                                            *)
(***************************************************************************)
Apps == {"wechat", "qq", "chrome"}

\* utils.find_windows_abspath / utils.find_mac_abspath: a path, or None
PathTables == [Apps -> {None, "path"}]

\* The process is launched as `style`; the module level runs (the path
\* table is `paths`), then __main__ reads the settings and constructs
\* MiaCat, which samples the CPU (c) for the first title.
Main(p, style, paths, c) ==
    /\ pc[p] = "absent"
    /\ proc' = [proc EXCEPT ![p] = style]
    /\ APP_PATH' = [APP_PATH EXCEPT ![p] = paths]
    /\ IF ini \in Variants
       THEN /\ running_animal' = [running_animal EXCEPT ![p] = ini]
            /\ running_animal_icons' =
                   [running_animal_icons EXCEPT ![p] = RUNNING_ANIMALS_MAPPING(ini)]
            /\ selected' = [selected EXCEPT ![p] = ini]
            /\ icon' = [icon EXCEPT ![p] = RUNNING_ANIMALS_MAPPING(ini)[1]]
            /\ title' = [title EXCEPT ![p] = <<"CPU : ", c>>]
            /\ tray' = [tray EXCEPT ![p] = "created"]
            /\ pc' = [pc EXCEPT ![p] = "main"]
       ELSE \* RUNNING_ANIMALS_MAPPING[running_animal]: KeyError
            /\ pc' = [pc EXCEPT ![p] = "crashed"]
            /\ UNCHANGED <<running_animal, running_animal_icons, selected,
                           icon, title, tray>>
    /\ UNCHANGED <<IS_WINDOWS, ini, mutex, even_loop, mia_cat_mutex, lpc,
                   cpu_percent, sleep_duration, it_list, it_idx, guard,
                   launch, cycle, sw, saved>>

\* is_app_running, the first step of start_mia_cat
IsAppRunning(p, faultAt) ==
    /\ pc[p] = "main"
    /\ IF IS_WINDOWS
       THEN \* CreateMutex opens the mutex if it exists, creates it if not
            /\ faultAt = 0
            /\ mutex' = mutex \cup {p}
            /\ mia_cat_mutex' = [mia_cat_mutex EXCEPT ![p] = "handle"]
            /\ guard' = [guard EXCEPT ![p] = <<mutex # {}>>]
       ELSE /\ faultAt \in 0..Len(ProcessTable)
            /\ guard' = [guard EXCEPT ![p] = <<ScanFrom(ProcessTable, 1, faultAt)>>]
            /\ UNCHANGED <<mutex, mia_cat_mutex>>
    /\ pc' = [pc EXCEPT ![p] = "checked"]
    /\ UNCHANGED <<IS_WINDOWS, ini, proc, APP_PATH, running_animal,
                   running_animal_icons, even_loop, tray, icon, title, lpc,
                   cpu_percent, sleep_duration, it_list, it_idx, launch,
                   cycle, sw, selected, saved>>

\* a plausible slip: the result of the guard ignored
AlreadyRunningIgnored(p) == FALSE

\* if self.is_app_running(): return
AlreadyRunning(p) == guard[p] = <<TRUE>>

\* the rest of start_mia_cat: the event loop, the animation thread, run()
StartMiaCat(p) ==
    /\ pc[p] = "checked"
    /\ IF AlreadyRunning(p)
       THEN /\ pc' = [pc EXCEPT ![p] = "returned"]
            /\ UNCHANGED <<even_loop, lpc, tray>>
       ELSE /\ even_loop' = [even_loop EXCEPT ![p] = "new"]
            /\ lpc' = [lpc EXCEPT ![p] = "top"]
            /\ tray' = [tray EXCEPT ![p] = "running"]
            /\ pc' = [pc EXCEPT ![p] = "started"]
    /\ UNCHANGED <<IS_WINDOWS, ini, mutex, proc, APP_PATH, running_animal,
                   running_animal_icons, mia_cat_mutex, icon, title,
                   cpu_percent, sleep_duration, it_list, it_idx, guard,
                   launch, cycle, sw, selected, saved>>

(***************************************************************************)
(* Animation thread: start_running and run_animal                          *)
(***************************************************************************)
\* the daemon thread lives as long as the process
ThreadAlive(p) == pc[p] \in {"started", "stopped"} /\ lpc[p] # "off"

\* what the icon updates after a variant switch have shown so far
SwAfterFrame(s, f) ==
    IF ~s.active THEN s
    ELSE IF f.animal = s.new
         THEN [s EXCEPT !.fresh = TRUE,
                        !.ok = s.ok /\ (s.fresh \/ f.index = 0)]
         ELSE [s EXCEPT !.old = s.old + 1,
                        !.ok = s.ok /\ ~s.fresh /\ f.animal = s.prev]

\* a plausible slip: the frame list looked up again for every frame
\* (self.running_animal_icons[i]) instead of being iterated
NextFrameOfCurrent(p) == Frame(running_animal[p], it_idx[p])

\* the next item of the iterator of `for animal_icon in
\* self.running_animal_icons`
NextFrame(p) == it_list[p][it_idx[p] + 1]

\* run_animal up to the for statement: sample the CPU (c), set the title,
\* compute the delay, take the iterator of the list selected now
RunAnimalBegin(p, c) ==
    /\ ThreadAlive(p)
    /\ lpc[p] = "top"
    /\ cpu_percent' = [cpu_percent EXCEPT ![p] = c]
    /\ title' = [title EXCEPT ![p] = <<"CPU: ", c, " %">>]
    /\ sleep_duration' = [sleep_duration EXCEPT ![p] = SleepDuration(c)]
    /\ it_list' = [it_list EXCEPT ![p] = running_animal_icons[p]]
    /\ it_idx' = [it_idx EXCEPT ![p] = 0]
    /\ lpc' = [lpc EXCEPT ![p] = "iter"]
    /\ cycle' = [cycle EXCEPT ![p] = << [ev |-> "cpu", val |-> c],
                                        [ev |-> "title", val |-> c] >>]
    /\ UNCHANGED <<IS_WINDOWS, ini, mutex, pc, proc, APP_PATH,
                   running_animal, running_animal_icons, even_loop,
                   mia_cat_mutex, tray, icon, guard, launch, sw, selected,
                   saved>>

\* one pass of the for body: await asyncio.sleep(sleep_duration), then
\* self.mia_cat.icon = animal_icon; after the last item run_animal returns
RunAnimalFrame(p) ==
    /\ ThreadAlive(p)
    /\ lpc[p] = "iter"
    /\ it_idx[p] < Len(it_list[p])
    /\ icon' = [icon EXCEPT ![p] = NextFrame(p)]
    /\ it_idx' = [it_idx EXCEPT ![p] = it_idx[p] + 1]
    /\ lpc' = [lpc EXCEPT ![p] =
                  IF it_idx[p] + 1 = Len(it_list[p]) THEN "top" ELSE "iter"]
    /\ cycle' = [cycle EXCEPT ![p] =
                    cycle[p] \o << [ev |-> "sleep", val |-> sleep_duration[p]],
                                   [ev |-> "icon", val |-> NextFrame(p)] >>]
    /\ sw' = [sw EXCEPT ![p] = SwAfterFrame(sw[p], NextFrame(p))]
    /\ UNCHANGED <<IS_WINDOWS, ini, mutex, pc, proc, APP_PATH,
                   running_animal, running_animal_icons, even_loop,
                   mia_cat_mutex, tray, title, cpu_percent, sleep_duration,
                   it_list, guard, launch, selected, saved>>

\* start_running: while True: await self.run_animal()
StartRunning(p) ==
    \/ \E c \in CpuPercents : RunAnimalBegin(p, c)
    \/ RunAnimalFrame(p)

(***************************************************************************)
(* Menu callbacks                                                          *)
(***************************************************************************)
\* the menu is served while self.mia_cat.run() runs
MenuOpen(p) == pc[p] = "started"

\* change_running_animal(v, RUNNING_ANIMALS_MAPPING[v]).  The animation thread
\* reads running_animal_icons only, so for it the call takes effect when
\* line 162 binds the new list; running_animal (line 161) is read by
\* stop_mia_cat alone, which runs in the menu thread like this callback.
ChangeRunningAnimal(p, v) ==
    /\ MenuOpen(p)
    /\ running_animal' = [running_animal EXCEPT ![p] = v]
    /\ running_animal_icons' =
           [running_animal_icons EXCEPT ![p] = RUNNING_ANIMALS_MAPPING(v)]
    /\ selected' = [selected EXCEPT ![p] = v]
    /\ sw' = [sw EXCEPT ![p] =
                 IF /\ lpc[p] = "iter"
                    /\ it_list[p][1].animal = running_animal[p]
                    /\ v # running_animal[p]
                 THEN [active |-> TRUE, prev |-> running_animal[p], new |-> v,
                       bound |-> Len(RUNNING_ANIMALS_MAPPING(running_animal[p])),
                       old |-> 0, fresh |-> FALSE, ok |-> TRUE]
                 ELSE NoSwitch]
    /\ UNCHANGED <<IS_WINDOWS, ini, mutex, pc, proc, APP_PATH, even_loop,
                   mia_cat_mutex, tray, icon, title, lpc, cpu_percent,
                   sleep_duration, it_list, it_idx, guard, launch, cycle,
                   saved>>

\* a plausible slip: the path not tested before the spawn
PathMissingUnchecked(path) == FALSE

\* if app_path is None
PathMissing(path) == path = None

\* launch_app(a).  hasOpen: an `open` command exists on the PATH (always
\* on macOS); rc: the status the spawned process exits with.
LaunchApp(p, a, hasOpen, rc) ==
    /\ MenuOpen(p)
    /\ LET path == APP_PATH[p][a]
           call == [NoLaunch EXCEPT !.app = a, !.path = path]
       IN launch' = [launch EXCEPT ![p] =
            IF PathMissing(path)
            THEN [call EXCEPT !.errors = 1]
            ELSE IF ~hasOpen
            THEN \* subprocess.Popen(["open", ...]): FileNotFoundError
                 [call EXCEPT !.popen = 1, !.raised = "FileNotFoundError"]
            ELSE IF rc = 0
            THEN [call EXCEPT !.popen = 1, !.spawned = 1, !.rc = <<rc>>]
            ELSE IF IS_WINDOWS
            THEN \* MAC_APP_PATH is not defined on Windows
                 [call EXCEPT !.popen = 1, !.spawned = 1, !.rc = <<rc>>,
                              !.raised = "NameError"]
            ELSE [call EXCEPT !.popen = 1, !.spawned = 1, !.rc = <<rc>>,
                              !.errors = 1]]
    /\ UNCHANGED <<IS_WINDOWS, ini, mutex, pc, proc, APP_PATH,
                   running_animal, running_animal_icons, even_loop,
                   mia_cat_mutex, tray, icon, title, lpc, cpu_percent,
                   sleep_duration, it_list, it_idx, guard, cycle, sw,
                   selected, saved>>

\* a plausible slip: config.set left out, the file rewritten as read
SavedVariantStale(p) == ini

\* config.set("animal", "run_animal", self.running_animal)
SavedVariant(p) == running_animal[p]

\* stop_mia_cat, the Exit item
StopMiaCat(p) ==
    /\ MenuOpen(p)
    /\ even_loop' = [even_loop EXCEPT ![p] = "stopped"]
    /\ tray' = [tray EXCEPT ![p] = "stopped"]
    /\ ini' = SavedVariant(p)
    /\ saved' = selected[p]
    /\ IF IS_WINDOWS
       THEN /\ mutex' = mutex \ {p}
            /\ mia_cat_mutex' = [mia_cat_mutex EXCEPT ![p] = "closed"]
       ELSE UNCHANGED <<mutex, mia_cat_mutex>>
    /\ pc' = [pc EXCEPT ![p] = "stopped"]
    /\ UNCHANGED <<IS_WINDOWS, proc, APP_PATH, running_animal,
                   running_animal_icons, icon, title, lpc, cpu_percent,
                   sleep_duration, it_list, it_idx, guard, launch, cycle,
                   sw, selected>>

\* The main thread returns from start_mia_cat (or dies of the KeyError) and
\* the process ends: the daemon thread dies with it, the system closes its
\* handles.
ProcessExit(p) ==
    /\ pc[p] \in {"returned", "stopped", "crashed"}
    /\ pc' = [pc EXCEPT ![p] = "absent"]
    /\ mutex' = mutex \ {p}
    /\ proc' = [proc EXCEPT ![p] = NoProc]
    /\ APP_PATH' = [APP_PATH EXCEPT ![p] = NoPaths]
    /\ running_animal' = [running_animal EXCEPT ![p] = None]
    /\ running_animal_icons' = [running_animal_icons EXCEPT ![p] = <<>>]
    /\ even_loop' = [even_loop EXCEPT ![p] = None]
    /\ mia_cat_mutex' = [mia_cat_mutex EXCEPT ![p] = None]
    /\ tray' = [tray EXCEPT ![p] = "none"]
    /\ icon' = [icon EXCEPT ![p] = NoFrame]
    /\ title' = [title EXCEPT ![p] = NoTitle]
    /\ lpc' = [lpc EXCEPT ![p] = "off"]
    /\ cpu_percent' = [cpu_percent EXCEPT ![p] = 0]
    /\ sleep_duration' = [sleep_duration EXCEPT ![p] = <<0, 1>>]
    /\ it_list' = [it_list EXCEPT ![p] = <<>>]
    /\ it_idx' = [it_idx EXCEPT ![p] = 0]
    /\ guard' = [guard EXCEPT ![p] = <<>>]
    /\ launch' = [launch EXCEPT ![p] = NoLaunch]
    /\ cycle' = [cycle EXCEPT ![p] = <<>>]
    /\ sw' = [sw EXCEPT ![p] = NoSwitch]
    /\ selected' = [selected EXCEPT ![p] = None]
    /\ UNCHANGED <<IS_WINDOWS, ini, saved>>

(***************************************************************************)
(* Specifications                                                          *)
(***************************************************************************)
\* CPU readings the animation is run with where the delay is not the point
CpuReadings == {0, 100}

AllResolved == [a \in Apps |-> "path"]

\* where the scan may be cut short: nowhere (0) or at an entry of the table
FaultPoints == 0..(Len(ForeignProcs) + Cardinality(Procs))

\* One instance through its life: settings, guard, animation, variant
\* switches, Exit, restart.
Next ==
    \/ \E style \in LaunchStyles, c \in CpuReadings :
           Main(1, style, AllResolved, c)
    \/ \E faultAt \in FaultPoints : IsAppRunning(1, faultAt)
    \/ StartMiaCat(1)
    \/ \E c \in CpuReadings : RunAnimalBegin(1, c)
    \/ RunAnimalFrame(1)
    \/ \E v \in Variants : ChangeRunningAnimal(1, v)
    \/ StopMiaCat(1)
    \/ ProcessExit(1)

Spec == Init /\ [][Next]_vars

\* One running instance and the application launcher.
NextLaunch ==
    \/ \E style \in LaunchStyles, paths \in PathTables, c \in CpuReadings :
           Main(1, style, paths, c)
    \/ \E faultAt \in FaultPoints : IsAppRunning(1, faultAt)
    \/ StartMiaCat(1)
    \/ \E c \in CpuReadings : RunAnimalBegin(1, c)
    \/ RunAnimalFrame(1)
    \/ \E a \in Apps, rc \in {0, 1},
          hasOpen \in (IF IS_WINDOWS THEN BOOLEAN ELSE {TRUE}) :
           LaunchApp(1, a, hasOpen, rc)
    \/ StopMiaCat(1)
    \/ ProcessExit(1)

SpecLaunch == Init /\ [][NextLaunch]_vars

\* Startup attempts of two processes, interleaved in every way; an instance
\* that shows the tray keeps running.
NextGuard ==
    \E p \in Procs :
        \/ \E style \in LaunchStyles : Main(p, style, AllResolved, 50)
        \/ \E faultAt \in FaultPoints : IsAppRunning(p, faultAt)
        \/ StartMiaCat(p)
        \/ RunAnimalBegin(p, 50)
        \/ RunAnimalFrame(p)
        \/ ProcessExit(p)

SpecGuard == Init /\ [][NextGuard]_vars

\* One instance animating under every CPU reading.
NextDelay ==
    \/ \E style \in LaunchStyles : Main(1, style, AllResolved, 0)
    \/ \E faultAt \in FaultPoints : IsAppRunning(1, faultAt)
    \/ StartMiaCat(1)
    \/ \E c \in CpuPercents : RunAnimalBegin(1, c)
    \/ RunAnimalFrame(1)

SpecDelay == Init /\ [][NextDelay]_vars

(***************************************************************************)
(* Claims                                                                  *)
(***************************************************************************)

\* C1: of two startup attempts that have both passed is_app_running,
\* exactly one shows the tray icon and the other has returned, whichever
\* guard strategy the platform uses.
ExactlyOneProceeds ==
    (\A p \in Procs : pc[p] \in {"started", "returned"})
        => Cardinality({p \in Procs : pc[p] = "started"}) = 1

\* C2: after a switch made while the loop iterates the frames of the
\* previous variant, at most len(previous frames) more icon updates show the
\* previous variant, every later one shows the new variant, and the first
\* of those is its frame 0.
SwitchBoundedResponse ==
    \A p \in Procs :
        sw[p].active => sw[p].ok /\ sw[p].old <= sw[p].bound

\* C2 witness: a switch from a horse in mid-cycle; the remaining horse
\* frames were shown and the new variant has taken over
SwitchBoundedResponseWitness ==
    /\ sw[1].active
    /\ sw[1].prev = "white_horse"
    /\ sw[1].old > 0
    /\ sw[1].fresh
    /\ icon[1].animal = sw[1].new
    /\ icon[1].index > 0

\* C3: Exit writes the variant loaded at startup or last chosen in the menu
\* to the settings file, and the next start loads it and constructs the
\* icon with frame 0 of its list.
SettingsRoundTrip ==
    \A p \in Procs :
        /\ pc[p] = "stopped" => ini = selected[p] /\ ini \in Variants
        /\ (saved # None /\ pc[p] \in {"main", "checked"})
               => /\ running_animal[p] = saved
                  /\ running_animal_icons[p] = RUNNING_ANIMALS_MAPPING(saved)
                  /\ icon[p] = Frame(saved, 0)

\* C3 witness: restarted after an Exit that saved a variant
SettingsRoundTripWitness ==
    /\ pc[1] = "main"
    /\ saved = "black_parrot"
    /\ icon[1] = Frame("black_parrot", 0)

SecondInstanceInert ==
    \A p \in Procs :
        /\ guard[p] = <<TRUE>>
               => /\ even_loop[p] = None
                  /\ lpc[p] = "off"
                  /\ tray[p] = "created"
                  /\ pc[p] \in {"checked", "returned"}
        /\ (even_loop[p] # None \/ lpc[p] # "off" \/ tray[p] = "running")
               => guard[p] = <<FALSE>>

\* C6 witness: on Windows one instance animates, the other has returned
SecondInstanceInertWitness ==
    /\ IS_WINDOWS
    /\ pc[1] = "started"
    /\ it_idx[1] > 0
    /\ pc[2] = "returned"
    /\ guard[2] = <<TRUE>>

\* C7: the delay run_animal computes for the reading p is 1/(p+10); it is
\* positive, at most 1/10 (reached at p = 0), at least 1/110 (reached at
\* p = 100), and no larger reading gives a longer delay.
DelayMapping ==
    \A p \in Procs :
        lpc[p] = "iter" =>
            LET c == cpu_percent[p]
                d == sleep_duration[p]
            IN /\ RatPos(d)
               /\ RatEq(d, <<1, c + 10>>)
               /\ RatLeq(d, <<1, 10>>)
               /\ RatLeq(<<1, 110>>, d)
               /\ c = 0 => RatEq(d, <<1, 10>>)
               /\ c = 100 => RatEq(d, <<1, 110>>)
               /\ \A q \in CpuPercents :
                      q >= c => /\ RatPos(SleepDuration(q))
                                /\ RatLeq(SleepDuration(q), d)

\* C7 witness: the loop runs with the delay of the idle machine
DelayMappingWitness ==
    /\ lpc[1] = "iter"
    /\ cpu_percent[1] = 0
    /\ it_idx[1] > 0

\* C8: a run_animal call samples the CPU and sets the title once, before any
\* frame; its icon updates are the frames 0, 1, ... of one variant's list in
\* order, each after one sleep of the same delay, and a finished call has
\* shown the whole list.
CycleOrdered ==
    \A p \in Procs :
        LET cy == cycle[p]
            n == Len(cy)
        IN n > 0 =>
            /\ n >= 2 /\ n % 2 = 0
            /\ cy[1].ev = "cpu"
            /\ cy[2].ev = "title" /\ cy[2].val = cy[1].val
            /\ \A k \in 3..n :
                   IF k % 2 = 1
                   THEN cy[k].ev = "sleep" /\ cy[k].val = cy[3].val
                   ELSE /\ cy[k].ev = "icon"
                        /\ cy[k].val = Frame(cy[4].val.animal, (k - 4) \div 2)
            /\ n > 2 => /\ cy[4].val.animal \in Variants
                        /\ (n - 2) \div 2 <= FrameCount(cy[4].val.animal)
                        /\ lpc[p] = "top"
                               => (n - 2) \div 2 = FrameCount(cy[4].val.animal)
            /\ lpc[p] = "iter" => (n - 2) \div 2 = it_idx[p]

\* C8 witness: a call finished all 14 horse frames although the menu
\* selected a cat while it ran
CycleOrderedWitness ==
    /\ lpc[1] = "top"
    /\ Len(cycle[1]) = 30
    /\ cycle[1][30].val = Frame("black_horse", 13)
    /\ running_animal[1] = "white_cat"
    /\ sw[1].active

\* C9: a launch whose spawned process exited with a non-zero status logged
\* one error, spawned once and raised nothing, on either platform.
LaunchNonZeroExit ==
    \A p \in Procs :
        (launch[p].rc # <<>> /\ launch[p].rc # <<0>>)
            => /\ launch[p].errors = 1
               /\ launch[p].popen = 1
               /\ launch[p].raised = None

\* C10: an instance started while no other process of the program exists
\* is not told that the program is already running, and does not return
\* from start_mia_cat without showing the tray.
SoleInstanceStarts ==
    \A p \in Procs :
        (\A q \in Procs \ {p} : ~Alive(q))
            => guard[p] # <<TRUE>> /\ pc[p] # "returned"

====
